---- MODULE Spec2Model ----
(***************************************************************************)
(* A model of mdtohtml: markdown_converter.py (front-matter splitting,     *)
(* caption post-processing, date subtitle, document assembly, the script   *)
(* entry point) and run.py (the entry point of the asset-materialising     *)
(* converter).  Text is modelled as TLA+ strings, read character by        *)
(* character; the regular expressions of the source are modelled by the    *)
(* matching they perform.                                                   *)
(***************************************************************************)
EXTENDS Integers, Sequences, FiniteSets, TLC

VARIABLES
    cpc,        \* SpecCaption: position ("start", "once", "twice")
    blocks,     \* SpecCaption: the blocks the HTML fragment is made of
    html,       \* SpecCaption: the HTML fragment handed to convert_img_captions
    once,       \* SpecCaption: convert_img_captions(html)
    twice,      \* SpecCaption: convert_img_captions(once)
    dpc,        \* SpecDate: position ("start", "done")
    body,       \* SpecDate: the body handed to inject_date_subtitle
    date,       \* SpecDate: the date handed to inject_date_subtitle
    dated,      \* SpecDate: inject_date_subtitle(body, date)
    entry,      \* Spec: the script run, "markdown_converter.py" or "run.py"
    argv,       \* Spec: sys.argv[1:]
    kind,       \* Spec: what the input path names: "missing", "dir" or "file"
    doc,        \* Spec: the shape and front-matter fields of the input file
    text,       \* Spec: the text of the input file
    images,     \* Spec: the images of the input file (run.py)
    pc,         \* Spec: the statement the run is at
    stdout,     \* Spec: the lines printed
    exitcode,   \* Spec: the exit code, -1 while running
    raised,     \* Spec: the exception that ended the run, "" for none
    dirs,       \* Spec: the directories created
    files,      \* Spec: the paths of the files written
    output_file, \* Spec: the output path
    meta,       \* Spec: the metadata parse_markdown returned
    md_body,    \* Spec: the Markdown body parse_markdown returned
    body_html,  \* Spec: the rendered body, as post-processed so far
    full_html,  \* Spec: the document handed to write_text
    fates,      \* Spec: how the processing of each image ended (run.py)
    processed   \* Spec: the markup that stands for each image (run.py)

capVars == <<cpc, blocks, html, once, twice>>
dateVars == <<dpc, body, date, dated>>
inVars == <<entry, argv, kind, doc, text, images>>
runVars == <<pc, stdout, exitcode, raised, dirs, files, output_file, meta,
             md_body, body_html, full_html, fates, processed>>
vars == <<capVars, dateVars, inVars, runVars>>

\* the variables of a specification that is not the one running
CaptionIdle == cpc = "idle" /\ blocks = <<>> /\ html = "" /\ once = "" /\ twice = ""
DateIdle == dpc = "idle" /\ body = "" /\ date = "" /\ dated = ""
RunIdle ==
    /\ entry = "" /\ argv = <<>> /\ kind = "" /\ doc = "" /\ text = ""
    /\ images = <<>> /\ pc = "idle" /\ stdout = <<>> /\ exitcode = -1
    /\ raised = "" /\ dirs = {} /\ files = {} /\ output_file = ""
    /\ meta = "" /\ md_body = "" /\ body_html = "" /\ full_html = ""
    /\ fates = <<>> /\ processed = <<>>

(***************************************************************************)
(* Characters and strings                                                  *)
(***************************************************************************)

At(s, i) == SubSeq(s, i, i)

\* str.lower() on one character (re.IGNORECASE compares case-folded text)
Lower(c) ==
    CASE c = "A" -> "a" [] c = "B" -> "b" [] c = "C" -> "c" [] c = "D" -> "d"
      [] c = "E" -> "e" [] c = "F" -> "f" [] c = "G" -> "g" [] c = "H" -> "h"
      [] c = "I" -> "i" [] c = "J" -> "j" [] c = "K" -> "k" [] c = "L" -> "l"
      [] c = "M" -> "m" [] c = "N" -> "n" [] c = "O" -> "o" [] c = "P" -> "p"
      [] c = "Q" -> "q" [] c = "R" -> "r" [] c = "S" -> "s" [] c = "T" -> "t"
      [] c = "U" -> "u" [] c = "V" -> "v" [] c = "W" -> "w" [] c = "X" -> "x"
      [] c = "Y" -> "y" [] c = "Z" -> "z" [] OTHER -> c

RECURSIVE LowerStr(_)
LowerStr(s) == IF s = "" THEN "" ELSE Lower(Head(s)) \o LowerStr(Tail(s))

\* the regular expression class \s
IsSpace(c) == c \in {" ", "\n", "\t", "\r", "\f"}

\* a literal of a pattern matches at position i
LitAt(s, i, lit) ==
    /\ i >= 1
    /\ i + Len(lit) - 1 <= Len(s)
    /\ SubSeq(s, i, i + Len(lit) - 1) = lit

\* a (lower-case) literal of a pattern compiled with re.IGNORECASE matches at i
ILitAt(s, i, lit) ==
    /\ i >= 1
    /\ i + Len(lit) - 1 <= Len(s)
    /\ LowerStr(SubSeq(s, i, i + Len(lit) - 1)) = lit

\* the least k in i..n with P(k), 0 when there is none: a scan from the left
First(i, n, P(_)) ==
    IF \E k \in i..n : P(k)
    THEN CHOOSE k \in i..n : P(k) /\ \A j \in i..(k - 1) : ~P(j)
    ELSE 0

\* the greatest k in i..n with P(k), 0 when there is none: a scan from the right
Last(i, n, P(_)) ==
    IF \E k \in i..n : P(k)
    THEN CHOOSE k \in i..n : P(k) /\ \A j \in (k + 1)..n : ~P(j)
    ELSE 0

\* \s* from position i: the first position that holds no white space
SkipSpace(s, i) ==
    First(i, Len(s) + 1, LAMBDA k : k > Len(s) \/ ~IsSpace(At(s, k)))

\* [^\s]* from position i: the first position that holds white space (or the end)
SkipNonSpace(s, i) ==
    First(i, Len(s) + 1, LAMBDA k : k > Len(s) \/ IsSpace(At(s, k)))

\* [^c]* from position i: the position of the first c at or after i, 0 if none
FindChar(s, i, c) == First(i, Len(s), LAMBDA k : At(s, k) = c)

\* str.find(lit, i): the first position at or after i where lit starts, 0 if none
Find(s, i, lit) == First(i, Len(s), LAMBDA k : LitAt(s, k, lit))

Contains(s, lit) == Find(s, 1, lit) # 0

\* how many times lit occurs in s (occurrences that do not overlap)
RECURSIVE Count(_, _, _)
Count(s, i, lit) ==
    LET f == Find(s, i, lit)
    IN  IF f = 0 THEN 0 ELSE 1 + Count(s, f + Len(lit), lit)

\* str.lstrip()
LStrip(s) == SubSeq(s, SkipSpace(s, 1), Len(s))

\* str.rstrip()
RStrip(s) == SubSeq(s, 1, Last(1, Len(s), LAMBDA k : ~IsSpace(At(s, k))))

\* str.strip()
Strip(s) == RStrip(LStrip(s))

RECURSIVE Concat(_)
Concat(ss) == IF ss = <<>> THEN "" ELSE Head(ss) \o Concat(Tail(ss))

(***************************************************************************)
(* convert_img_captions                                                    *)
(***************************************************************************)

NoMatch == [ok |-> FALSE, from |-> 0, to |-> 0, end |-> 0]

\* IMG_P_TAG matched at position i: <p>\s*(<img[^>]+>)\s*</p>, ignoring case.
\* from..to is group 1 (the img tag), end the last position of the match.
IMG_P_TAG(s, i) ==
    IF ~ILitAt(s, i, "<p>") THEN NoMatch
    ELSE LET j == SkipSpace(s, i + 3)
         IN  IF ~ILitAt(s, j, "<img") THEN NoMatch
             ELSE LET k == FindChar(s, j + 4, ">")
                  IN  IF k = 0 \/ k = j + 4 THEN NoMatch
                      ELSE LET e == SkipSpace(s, k + 1)
                           IN  IF ILitAt(s, e, "</p>")
                               THEN [ok |-> TRUE, from |-> j, to |-> k, end |-> e + 3]
                               ELSE NoMatch

\* re.search(name="([^"]+)", img_tag, re.IGNORECASE) from position i; name holds
\* the attribute's name, the equals sign and the opening quote.
\* the pattern name="([^"]+)" matches at position i: the closing quote's
\* position, 0 when it does not match
attr_at(img_tag, name, i) ==
    IF ~ILitAt(img_tag, i, name) THEN 0
    ELSE LET a == i + Len(name)
             q == FindChar(img_tag, a, "\"")
         IN  IF q > a THEN q ELSE 0

\* re.search(name="([^"]+)", img_tag, re.IGNORECASE); name holds the
\* attribute's name, the equals sign and the opening quote.
attr_search(img_tag, name) ==
    LET i == First(1, Len(img_tag), LAMBDA k : attr_at(img_tag, name, k) # 0)
    IN  IF i = 0 THEN [ok |-> FALSE, group |-> ""]
        ELSE [ok |-> TRUE,
              group |-> SubSeq(img_tag, i + Len(name), attr_at(img_tag, name, i) - 1)]

\* the replacement linkify returns for one URL
linkify(url) ==
    "<a href=\"" \o url \o "\" target=\"_blank\" rel=\"noopener noreferrer\">"
        \o url \o "</a>"

\* the pattern https?://[^\s]+ matches at position i: the position after the
\* match, 0 when it does not match
url_at(caption, i) ==
    LET a == IF LitAt(caption, i, "https://") THEN i + 8
             ELSE IF LitAt(caption, i, "http://") THEN i + 7
             ELSE 0
        e == IF a = 0 THEN 0 ELSE SkipNonSpace(caption, a)
    IN  IF a # 0 /\ e > a THEN e ELSE 0

\* re.sub(r"https?://[^\s]+", linkify, caption) from position pos
RECURSIVE caption_html(_, _)
caption_html(caption, pos) ==
    LET i == First(pos, Len(caption), LAMBDA k : url_at(caption, k) # 0)
    IN  IF i = 0 THEN SubSeq(caption, pos, Len(caption))
        ELSE SubSeq(caption, pos, i - 1)
                 \o linkify(SubSeq(caption, i, url_at(caption, i) - 1))
                 \o caption_html(caption, url_at(caption, i))

\* the caption _repl chooses: [has |-> FALSE] stands for None
caption_of(img_tag) ==
    LET title_m == attr_search(img_tag, "title=\"")
        alt_m == attr_search(img_tag, "alt=\"")
    IN  IF title_m.ok THEN [has |-> TRUE, text |-> Strip(title_m.group)]
        ELSE IF alt_m.ok THEN [has |-> TRUE, text |-> Strip(alt_m.group)]
        ELSE [has |-> FALSE, text |-> ""]

\* a figure that keeps the paragraph it replaces
figure_in_paragraph(img_tag, caption) ==
    "<figure><p>" \o img_tag \o "</p><figcaption>" \o caption_html(caption, 1)
        \o "</figcaption></figure>"

\* the figure _repl builds around an img tag
figure_of(img_tag, caption) ==
    "<figure>" \o img_tag \o "<figcaption>" \o caption_html(caption, 1)
        \o "</figcaption></figure>"

\* _repl: the replacement of one match (whole: group 0, img_tag: group 1)
repl(whole, img_tag) ==
    LET caption == caption_of(img_tag)
    IN  IF caption.has /\ caption.text # ""
        THEN figure_of(img_tag, caption.text)
        ELSE whole

\* IMG_P_TAG.sub(_repl, html) from position pos
RECURSIVE img_p_sub(_, _)
img_p_sub(s, pos) ==
    LET i == First(pos, Len(s), LAMBDA k : IMG_P_TAG(s, k).ok)
    IN  IF i = 0 THEN SubSeq(s, pos, Len(s))
        ELSE LET m == IMG_P_TAG(s, i)
             IN  SubSeq(s, pos, i - 1)
                     \o repl(SubSeq(s, i, m.end), SubSeq(s, m.from, m.to))
                     \o img_p_sub(s, m.end + 1)

convert_img_captions(s) == img_p_sub(s, 1)

(***************************************************************************)
(* SpecCaption: convert_img_captions applied to a fragment, then to its    *)
(* own output.  The fragment is a sequence of blocks as the Markdown       *)
(* renderer emits them, one per line.                                      *)
(***************************************************************************)

MaxBlocks == 2

Titles == {"", " ", " Fig http://u.io/x "}
Alts == {"", "A https://a.io"}
\* "ast": alt, src, title, the order the Markdown renderer writes;
\* "tsa": title, src, alt, upper-case tag, white space around the image
Layouts == {"ast", "tsa"}

\* every combination of title and alt in the renderer's layout; the other
\* layout where the order can matter, with both attributes
ImgBlocks ==
    [kind : {"img"}, hasTitle : {TRUE}, title : Titles,
     hasAlt : {TRUE}, alt : Alts, layout : Layouts, text : {""}]
    \cup [kind : {"img"}, hasTitle : {FALSE}, title : {""},
          hasAlt : {TRUE}, alt : Alts, layout : {"ast"}, text : {""}]
    \cup [kind : {"img"}, hasTitle : {TRUE}, title : Titles,
          hasAlt : {FALSE}, alt : {""}, layout : {"ast"}, text : {""}]
    \cup [kind : {"img"}, hasTitle : {FALSE}, title : {""},
          hasAlt : {FALSE}, alt : {""}, layout : {"ast"}, text : {""}]

RawTexts ==
    { "<p>Some text.</p>",
      "<p><img alt=\"A\" src=\"a.png\" /> and text</p>",
      "<h1 id=\"t\">T</h1>" }

RawBlocks ==
    [kind : {"raw"}, hasTitle : {FALSE}, title : {""},
     hasAlt : {FALSE}, alt : {""}, layout : {"ast"}, text : RawTexts]

Blocks == ImgBlocks \cup RawBlocks

\* the img tag of an image block
ImgTag(b) ==
    LET t == IF b.hasTitle THEN "title=\"" \o b.title \o "\" " ELSE ""
        a == IF b.hasAlt THEN "alt=\"" \o b.alt \o "\" " ELSE ""
    IN  IF b.layout = "ast"
        THEN "<img " \o a \o "src=\"i.png\" " \o t \o "/>"
        ELSE "<IMG " \o t \o "src=\"i.png\" " \o a \o "/>"

\* the markup of a block
Markup(b) ==
    IF b.kind = "raw" THEN b.text
    ELSE IF b.layout = "ast" THEN "<p>" \o ImgTag(b) \o "</p>"
    ELSE "<P>\n  " \o ImgTag(b) \o "\n</P>"

RECURSIVE Fragment(_)
Fragment(bs) ==
    IF bs = <<>> THEN "" ELSE Markup(Head(bs)) \o "\n" \o Fragment(Tail(bs))

BlockSeqs == UNION {[1..n -> Blocks] : n \in 0..MaxBlocks}

CaptionInit ==
    /\ cpc = "start"
    /\ blocks \in BlockSeqs
    /\ html = Fragment(blocks)
    /\ once = ""
    /\ twice = ""
    /\ DateIdle
    /\ RunIdle

\* body_html = convert_img_captions(body_html)
CaptionOnce ==
    /\ cpc = "start"
    /\ once' = convert_img_captions(html)
    /\ cpc' = "once"
    /\ UNCHANGED <<blocks, html, twice, dateVars, inVars, runVars>>

\* the post-processor run on its own output
CaptionTwice ==
    /\ cpc = "once"
    /\ twice' = convert_img_captions(once)
    /\ cpc' = "twice"
    /\ UNCHANGED <<blocks, html, once, dateVars, inVars, runVars>>

CaptionNext == CaptionOnce \/ CaptionTwice

SpecCaption == CaptionInit /\ [][CaptionNext]_vars

(***************************************************************************)
(* Claims about convert_img_captions                                       *)
(***************************************************************************)

\* what the precedence rule asks of one block: the title if it is not empty,
\* else the alt if it is not empty (white space trimmed, URLs made links),
\* else the paragraph as it was
ByPrecedence(b) ==
    IF b.kind = "raw" THEN b.text
    ELSE IF b.hasTitle /\ b.title # "" THEN figure_of(ImgTag(b), Strip(b.title))
    ELSE IF b.hasAlt /\ b.alt # "" THEN figure_of(ImgTag(b), Strip(b.alt))
    ELSE Markup(b)

RECURSIVE FragmentByPrecedence(_)
FragmentByPrecedence(bs) ==
    IF bs = <<>> THEN ""
    ELSE ByPrecedence(Head(bs)) \o "\n" \o FragmentByPrecedence(Tail(bs))

\* C1: every paragraph whose sole content is one image gets the caption the
\* precedence rule chooses (a non-empty title, else a non-empty alt), in
\* whatever order the attributes stand, and is left as it was when the image
\* has neither.
C1_CaptionPrecedence ==
    cpc # "start" => once = FragmentByPrecedence(blocks)

\* C2: convert_img_captions is idempotent: a second pass over the output of
\* the first changes nothing.
C2_Idempotent ==
    cpc = "twice" => twice = once

\* C2 witness: a second pass has run over a fragment in which the first pass
\* produced a figure with a linkified caption.
C2_Witness ==
    /\ cpc = "twice"
    /\ once # html
    /\ Contains(once, "<figcaption>Fig <a href=\"http://u.io/x\"")
    /\ twice = once

(***************************************************************************)
(* inject_date_subtitle                                                    *)
(***************************************************************************)

\* the pattern <h1[^>]*>.*?</h1> (IGNORECASE, DOTALL) matches at position i:
\* the position after the match, 0 when it does not match
h1_lazy(s, i) ==
    IF ~ILitAt(s, i, "<h1") THEN 0
    ELSE LET k == FindChar(s, i + 3, ">")
             c == IF k = 0 THEN 0
                  ELSE First(k + 1, Len(s), LAMBDA j : ILitAt(s, j, "</h1>"))
         IN  IF c = 0 THEN 0 ELSE c + 5

\* the same pattern with a greedy .* : the match runs to the last </h1>
h1_greedy(s, i) ==
    IF ~ILitAt(s, i, "<h1") THEN 0
    ELSE LET k == FindChar(s, i + 3, ">")
             c == IF k = 0 THEN 0
                  ELSE Last(k + 1, Len(s), LAMBDA j : ILitAt(s, j, "</h1>"))
         IN  IF c = 0 THEN 0 ELSE c + 5

h1_at(s, i) == h1_lazy(s, i)

\* f'\n<p class="subtitle"><time datetime="{date}">{date}</time></p>'
subtitle(d) ==
    "\n<p class=\"subtitle\"><time datetime=\"" \o d \o "\">" \o d \o "</time></p>"

inject_date_subtitle(s, d) ==
    IF d = "" THEN s
    ELSE LET i == First(1, Len(s), LAMBDA k : h1_at(s, k) # 0)
         IN  IF i = 0 THEN s
             ELSE LET end == h1_at(s, i) - 1
                  IN  SubSeq(s, 1, end) \o subtitle(d) \o SubSeq(s, end + 1, Len(s))

(***************************************************************************)
(* SpecDate: inject_date_subtitle applied to a rendered body and a date    *)
(***************************************************************************)

MaxDateBlocks == 3

DateBlocks ==
    { "<h1 id=\"t\">Title</h1>", "<H1>Two</H1>", "<p>text</p>",
      "<h2>Sub</h2>", "<h1>open" }

Dates == {"", "2024-03-15"}

RECURSIVE Lines(_)
Lines(bs) == IF bs = <<>> THEN "" ELSE Head(bs) \o "\n" \o Lines(Tail(bs))

DateInit ==
    /\ dpc = "start"
    /\ \E bs \in UNION {[1..n -> DateBlocks] : n \in 0..MaxDateBlocks} :
           body = Lines(bs)
    /\ date \in Dates
    /\ dated = ""
    /\ CaptionIdle
    /\ RunIdle

\* body_html = inject_date_subtitle(body_html, meta.get("date", ""))
InjectDate ==
    /\ dpc = "start"
    /\ dated' = inject_date_subtitle(body, date)
    /\ dpc' = "done"
    /\ UNCHANGED <<body, date, capVars, inVars, runVars>>

DateNext == InjectDate

SpecDate == DateInit /\ [][DateNext]_vars

(***************************************************************************)
(* Claims about inject_date_subtitle                                       *)
(***************************************************************************)

\* position e closes an h1 element of s that opens at o: <h1 ...> at o, its
\* opening tag ending at k, its closing tag ending at e, and no other </h1>
\* in between
IsH1Element(s, o, e) ==
    /\ ILitAt(s, o, "<h1")
    /\ ILitAt(s, e - 4, "</h1>")
    /\ \E k \in (o + 3)..(e - 5) :
          /\ At(s, k) = ">"
          /\ \A j \in (o + 3)..(k - 1) : At(s, j) # ">"
          /\ \A j \in (k + 1)..(e - 5) : ~ILitAt(s, j, "</h1>")

HasH1(s) == \E o \in 1..Len(s), e \in 1..Len(s) : IsH1Element(s, o, e)

\* e is where the closing tag of the first h1 element of s ends
ClosesFirstH1(s, e) ==
    \E o \in 1..Len(s) :
        /\ IsH1Element(s, o, e)
        /\ \A o2 \in 1..(o - 1), e2 \in 1..Len(s) : ~IsH1Element(s, o2, e2)

\* C5: with a non-empty date and an h1 in the body, the result is the body
\* with exactly one subtitle carrying the date inserted right after the
\* closing tag of the first h1, everything else unchanged; with an empty
\* date, or no h1, the result is the body itself.
C5_DateSubtitle ==
    dpc = "done" =>
        IF date # "" /\ HasH1(body)
        THEN /\ \E e \in 1..Len(body) :
                   /\ ClosesFirstH1(body, e)
                   /\ dated = SubSeq(body, 1, e) \o subtitle(date)
                                  \o SubSeq(body, e + 1, Len(body))
             /\ Count(dated, 1, "<p class=\"subtitle\">") = 1
             /\ Count(dated, 1, date) = 2
        ELSE dated = body

\* C5 witness: a date was injected into a body with two h1 elements, after
\* the first of them.
C5_Witness ==
    /\ dpc = "done"
    /\ date = "2024-03-15"
    /\ Count(body, 1, "</h1>") + Count(body, 1, "</H1>") >= 2
    /\ dated # body

(***************************************************************************)
(* Python values and dictionaries                                          *)
(***************************************************************************)

\* a value the YAML parser yields: a string or None
Str(s) == [t |-> "str", s |-> s]
None == [t |-> "none", s |-> ""]
\* the mark of a key a dictionary does not hold
Absent == [t |-> "absent", s |-> ""]

\* Python's truth value of a string or None
truthy(v) == v.t = "str" /\ v.s # ""

\* what an f-string writes for a value
format(v) == IF v.t = "none" THEN "None" ELSE v.s

Keys == <<"title", "description", "keywords", "canonical", "image", "url", "date">>
KeySet == {Keys[i] : i \in 1..Len(Keys)}

\* the empty dictionary {}
EmptyDict == [k \in KeySet |-> Absent]

\* d.get(k, default)
get(d, k, default) == IF d[k] = Absent THEN default ELSE d[k]

DEFAULT_META ==
    [title |-> Str("Untitled Post"),
     description |-> Str("Markdown to HTML output"),
     keywords |-> Str("blog, markdown, python"),
     canonical |-> Str(""),
     image |-> Str("imgs/social.webp"),
     url |-> Str(""),
     date |-> Str("")]

(***************************************************************************)
(* yaml.safe_load, on the block forms the documents below use: lines of    *)
(* key: value with plain, quoted or missing values, or a single scalar     *)
(***************************************************************************)

RECURSIVE SplitLines(_)
SplitLines(s) ==
    IF s = "" THEN <<>>
    ELSE LET n == FindChar(s, 1, "\n")
         IN  IF n = 0 THEN <<s>>
             ELSE <<SubSeq(s, 1, n - 1)>> \o SplitLines(SubSeq(s, n + 1, Len(s)))

\* the position of the colon that ends a key: a colon before a space or the end
KeyColon(l) ==
    First(1, Len(l), LAMBDA k : At(l, k) = ":" /\ (k = Len(l) \/ At(l, k + 1) = " "))

\* a scalar in flow: quoted (either quote), missing (null) or plain
yaml_scalar(raw) ==
    LET q == At(raw, 1)
    IN  IF raw = "" THEN [ok |-> TRUE, v |-> None]
        ELSE IF q \in {"'", "\""}
        THEN IF Len(raw) >= 2 /\ FindChar(raw, 2, q) = Len(raw)
             THEN [ok |-> TRUE, v |-> Str(SubSeq(raw, 2, Len(raw) - 1))]
             ELSE [ok |-> FALSE, v |-> None]
        ELSE IF KeyColon(raw) # 0
        THEN [ok |-> FALSE, v |-> None]   \* mapping values are not allowed here
        ELSE [ok |-> TRUE, v |-> Str(raw)]

\* one line of a block mapping
yaml_entry(l) ==
    LET c == KeyColon(l)
        val == yaml_scalar(Strip(SubSeq(l, c + 1, Len(l))))
    IN  [ok |-> c > 1 /\ val.ok, key |-> Strip(SubSeq(l, 1, c - 1)), v |-> val.v]

RECURSIVE yaml_mapping(_)
yaml_mapping(ls) ==
    IF ls = <<>> THEN EmptyDict
    ELSE LET e == yaml_entry(Head(ls))
             rest == yaml_mapping(Tail(ls))
         IN  [k \in KeySet |->
                 IF rest[k] # Absent THEN rest[k]
                 ELSE IF k = e.key THEN e.v
                 ELSE Absent]

\* yaml.safe_load(yaml_block): a mapping, None, a string, or an error raised
safe_load(yaml_block) ==
    LET ls == SelectSeq(SplitLines(yaml_block), LAMBDA l : Strip(l) # "")
    IN  IF ls = <<>> THEN [tag |-> "none", map |-> EmptyDict, str |-> ""]
        ELSE IF \A i \in 1..Len(ls) : yaml_entry(ls[i]).ok
        THEN [tag |-> "map", map |-> yaml_mapping(ls), str |-> ""]
        ELSE IF Len(ls) = 1 /\ KeyColon(ls[1]) = 0
                  /\ At(Strip(ls[1]), 1) \notin {"'", "\"", "-", "[", "{"}
        THEN [tag |-> "str", map |-> EmptyDict, str |-> Strip(ls[1])]
        ELSE [tag |-> "error", map |-> EmptyDict, str |-> ""]

(***************************************************************************)
(* parse_markdown                                                          *)
(***************************************************************************)

\* text.split("---", 2) of a text that starts with "---": the position of the
\* second delimiter, 0 when there is none (fewer than three parts)
second_delimiter(txt) == Find(txt, 4, "---")

\* parse_markdown on the text of the file: what it raises ("" for nothing) and
\* what it returns.  isDict tells a dictionary from another value (a string).
parse_markdown(txt) ==
    LET p == second_delimiter(txt)
        loaded == safe_load(SubSeq(txt, 4, p - 1))
        rest == SubSeq(txt, p + 3, Len(txt))
    IN  IF LitAt(txt, 1, "---") /\ p # 0
        THEN IF loaded.tag = "error"
             THEN [raised |-> "YAMLError", isDict |-> TRUE, meta |-> EmptyDict,
                   other |-> "", md_body |-> ""]
             ELSE IF loaded.tag = "str" /\ loaded.str # ""
             THEN [raised |-> "", isDict |-> FALSE, meta |-> EmptyDict,
                   other |-> loaded.str, md_body |-> LStrip(rest)]
             ELSE [raised |-> "", isDict |-> TRUE, meta |-> loaded.map,
                   other |-> "", md_body |-> LStrip(rest)]
        ELSE [raised |-> "", isDict |-> TRUE, meta |-> EmptyDict,
              other |-> "", md_body |-> txt]

(***************************************************************************)
(* markdown.Markdown(...).convert, on the line forms the documents below   *)
(* use: an ATX heading, a thematic break, an image alone, a paragraph      *)
(***************************************************************************)

\* ![alt](src "title") alone on a line
md_image(l) ==
    LET a == Find(l, 1, "](")
        t == Find(l, 1, " \"")
        alt == SubSeq(l, 3, a - 1)
        src == SubSeq(l, a + 2, (IF t = 0 THEN Len(l) ELSE t) - 1)
        title == IF t = 0 THEN "" ELSE " title=\"" \o SubSeq(l, t + 2, Len(l) - 2) \o "\""
    IN  "<p><img alt=\"" \o alt \o "\" src=\"" \o src \o "\"" \o title \o " /></p>"

md_line(l) ==
    IF l = "---" THEN "<hr />"
    ELSE IF LitAt(l, 1, "# ")
    THEN LET h == SubSeq(l, 3, Len(l))
         IN  "<h1 id=\"" \o LowerStr(h) \o "\">" \o h \o "</h1>"
    ELSE IF LitAt(l, 1, "![") /\ At(l, Len(l)) = ")" THEN md_image(l)
    ELSE "<p>" \o l \o "</p>"

RECURSIVE md_lines(_)
md_lines(ls) ==
    IF ls = <<>> THEN ""
    ELSE IF Len(ls) = 1 THEN md_line(Head(ls))
    ELSE md_line(Head(ls)) \o "\n" \o md_lines(Tail(ls))

md_convert(src) ==
    md_lines(SelectSeq(SplitLines(src), LAMBDA l : Strip(l) # ""))

(***************************************************************************)
(* build_html                                                              *)
(***************************************************************************)

\* {**meta, **DEFAULT_META}: the defaults written over the front-matter
merge_reversed(defaults, given) ==
    [k \in KeySet |-> IF defaults[k] # Absent THEN defaults[k] ELSE given[k]]

\* m = {**DEFAULT_META, **meta}
merge(defaults, given) ==
    [k \in KeySet |-> IF given[k] # Absent THEN given[k] ELSE defaults[k]]

\* the values build_html resolves (its local variables)
resolve(given) ==
    LET m == merge(DEFAULT_META, given)
        canonical == IF truthy(m["canonical"]) THEN m["canonical"]
                     ELSE get(m, "url", Str(""))
    IN  [title |-> m["title"],
         description |-> m["description"],
         keywords |-> m["keywords"],
         canonical |-> canonical,
         url |-> get(m, "url", canonical),
         image |-> get(m, "image", DEFAULT_META["image"]),
         date |-> get(m, "date", DEFAULT_META["date"])]

\* an interpolation {value} of the template: the value as written, unescaped
interpolate(v) == format(v)

\* the document build_html returns, as the text written at each placeholder of
\* the template (the template's own text is constant)
build_html(given, fragment) ==
    LET r == resolve(given)
    IN  [title |-> interpolate(r.title),
         description |-> interpolate(r.description),
         keywords |-> interpolate(r.keywords),
         canonical |-> interpolate(r.canonical),
         url |-> interpolate(r.url),
         image |-> interpolate(r.image),
         body_html |-> fragment]

(***************************************************************************)
(* Paths                                                                   *)
(***************************************************************************)

\* os.path.basename(path): what follows the last slash
basename(path) ==
    SubSeq(path, Last(1, Len(path), LAMBDA k : At(path, k) = "/") + 1, Len(path))

\* os.path.splitext(name)[0] for a name without a slash: the name up to its
\* last dot, a leading dot not counting
stem(name) ==
    LET d == Last(2, Len(name), LAMBDA k : At(name, k) = ".")
    IN  IF d = 0 THEN name ELSE SubSeq(name, 1, d - 1)

\* Path(path).with_suffix(".html")
with_suffix_html(path) ==
    SubSeq(path, 1, Len(path) - Len(basename(path))) \o stem(basename(path)) \o ".html"

\* os.path.join("outputs", f"{base_name}.html")
run_output_file(path) == "outputs/" \o stem(basename(path)) \o ".html"

(***************************************************************************)
(* MarkdownConverter.convert_file (run.py's converter), one image at a     *)
(* time: fetch or read, decode, resize, write, replace                     *)
(***************************************************************************)

\* the original markup of an image
img_markup(im) ==
    "<img alt=\"" \o im.alt \o "\" src=\"" \o im.src \o "\""
        \o (IF im.title = "" THEN "" ELSE " title=\"" \o im.title \o "\"") \o " />"

\* the file name derived from the source reference
asset_name(src) == IF src = "pic.png" THEN "a1.png" ELSE "b2.png"

\* the figure that replaces an image whose asset was written
asset_figure(im) ==
    LET caption == IF im.title # "" THEN im.title ELSE im.alt
    IN  "<figure><img src=\"images/" \o asset_name(im.src) \o "\" alt=\"" \o im.alt
            \o "\" />"
            \o (IF caption = "" THEN "" ELSE "<figcaption>" \o caption \o "</figcaption>")
            \o "</figure>"

\* the ways the processing of one image can end
fates_of(im) ==
    IF LitAt(im.src, 1, "http://") \/ LitAt(im.src, 1, "https://")
    THEN {"ok", "fetch failed", "decode failed", "write failed"}
    ELSE {"ok", "read failed", "decode failed", "write failed"}

\* a converter that lets an image's failure end the conversion
process_image_aborting(im, fate) ==
    [markup |-> IF fate = "ok" THEN asset_figure(im) ELSE img_markup(im),
     goes_on |-> fate = "ok"]

\* what the processing of one image leaves: its markup, and whether the
\* conversion goes on
process_image(im, fate) ==
    [markup |-> IF fate = "ok" THEN asset_figure(im) ELSE img_markup(im),
     goes_on |-> TRUE]

(***************************************************************************)
(* Spec: one run of markdown_converter.py or of run.py                     *)
(***************************************************************************)

MaxFields == 2
MaxImages == 2

\* how a front-matter line writes its value: nothing (null), '' (empty),
\* a plain scalar, a quoted scalar holding markup
Forms == {"null", "empty", "plain", "markup"}

NoFields == [k \in KeySet |-> "absent"]

FieldMaps ==
    {f \in [KeySet -> Forms \cup {"absent"}] :
        Cardinality({k \in KeySet : f[k] # "absent"}) <= MaxFields}

MarkupValue == "a\"><b>"

PlainValue(k) ==
    CASE k = "title" -> "Hello"
      [] k = "description" -> "A post"
      [] k = "keywords" -> "a, b"
      [] k = "canonical" -> "https://e.io/c"
      [] k = "image" -> "imgs/p.png"
      [] k = "url" -> "https://e.io/p"
      [] k = "date" -> "2024-03-15"

\* the value a front-matter line of that form carries
ValueOf(k, form) ==
    CASE form = "null" -> None
      [] form = "empty" -> Str("")
      [] form = "plain" -> Str(PlainValue(k))
      [] form = "markup" -> Str(MarkupValue)
      [] OTHER -> Absent

YamlLine(k, form) ==
    CASE form = "absent" -> ""
      [] form = "null" -> k \o ":\n"
      [] form = "empty" -> k \o ": ''\n"
      [] form = "plain" -> k \o ": " \o PlainValue(k) \o "\n"
      [] form = "markup" -> k \o ": '" \o MarkupValue \o "'\n"

RECURSIVE YamlLines(_, _)
YamlLines(f, i) ==
    IF i > Len(Keys) THEN "" ELSE YamlLine(Keys[i], f[Keys[i]]) \o YamlLines(f, i + 1)

Body == "# Hi\n\n![A](i.png \"T\")\n\nSome text.\n"
\* a body without a heading
BodyNoHeading == "![A](i.png \"T\")\n\nSome text.\n"

Shapes ==
    {"none", "block", "unterminated", "dashes", "rule", "inline", "badyaml", "scalar"}

Documents ==
    [shape : {"block"}, fields : FieldMaps, heading : BOOLEAN]
    \cup [shape : Shapes \ {"block"}, fields : {NoFields}, heading : {TRUE}]

\* the text of the input file
Text(d) ==
    CASE d.shape = "none" -> Body
      [] d.shape = "block" ->
             "---\n" \o YamlLines(d.fields, 1) \o "---\n"
                 \o (IF d.heading THEN Body ELSE BodyNoHeading)
      [] d.shape = "unterminated" -> "---\ntitle: Hello\n\n" \o Body
      [] d.shape = "dashes" -> "----\n\n" \o Body
      [] d.shape = "rule" -> "---\n\nIntro --- more\n"
      [] d.shape = "inline" -> "---\ntitle: a---\n---\n" \o Body
      [] d.shape = "badyaml" -> "---\ntitle: a: b\n---\n" \o Body
      [] d.shape = "scalar" -> "---\njust text\n---\n" \o Body

PlainDoc == [shape |-> "none", fields |-> NoFields, heading |-> TRUE]

InputPaths == {"post.md", "docs/notes"}
Argvs ==
    {<<>>} \cup {<<p>> : p \in InputPaths}
           \cup {<<p, "out/page.html">> : p \in InputPaths}

Images ==
    [src : {"pic.png", "https://e.io/r.jpg"}, alt : {"", "A"}, title : {"", "T"}]
ImageSeqs == UNION {[1..n -> Images] : n \in 0..MaxImages}

NoMeta == [isDict |-> TRUE, meta |-> EmptyDict, other |-> ""]
NoDocument ==
    [title |-> "", description |-> "", keywords |-> "", canonical |-> "",
     url |-> "", image |-> "", body_html |-> ""]

Init ==
    /\ CaptionIdle
    /\ DateIdle
    /\ entry \in {"markdown_converter.py", "run.py"}
    /\ \/ \* the entry points, on every command line and kind of input path
          /\ argv \in Argvs
          /\ kind \in IF argv = <<>> THEN {"missing"} ELSE {"missing", "dir", "file"}
          /\ doc = PlainDoc
          /\ images = IF entry = "run.py" /\ kind = "file"
                      THEN <<[src |-> "pic.png", alt |-> "A", title |-> ""]>>
                      ELSE <<>>
       \/ \* markdown_converter.py on every document
          /\ entry = "markdown_converter.py"
          /\ argv = <<"post.md">>
          /\ kind = "file"
          /\ doc \in Documents
          /\ images = <<>>
       \/ \* run.py on every sequence of images
          /\ entry = "run.py"
          /\ argv = <<"post.md">>
          /\ kind = "file"
          /\ doc = PlainDoc
          /\ images \in ImageSeqs
    /\ text = IF kind = "file" THEN Text(doc) ELSE ""
    /\ pc = "main"
    /\ stdout = <<>>
    /\ exitcode = -1
    /\ raised = ""
    /\ dirs = {}
    /\ files = {}
    /\ output_file = ""
    /\ meta = NoMeta
    /\ md_body = ""
    /\ body_html = ""
    /\ full_html = NoDocument
    /\ fates = <<>>
    /\ processed = <<>>

\* sys.exit(code) after print(line)
Exit(line, code) ==
    /\ stdout' = Append(stdout, line)
    /\ exitcode' = code
    /\ pc' = "exit"

\* an exception nothing catches: the traceback goes to stderr, the exit code is 1
Raise(exception) ==
    /\ raised' = exception
    /\ exitcode' = 1
    /\ pc' = "exit"

----------------------------------------------------------------------------
\* markdown_converter.py, run as a script

\* if len(sys.argv) < 2
Usage ==
    /\ entry = "markdown_converter.py" /\ pc = "main"
    /\ argv = <<>>
    /\ Exit("Usage: python converter.py <input.md> [output.html]", 1)
    /\ UNCHANGED <<capVars, dateVars, inVars, raised, dirs, files, output_file,
                   meta, md_body, body_html, full_html, fates, processed>>

\* if not input_file.exists()
NotFound ==
    /\ entry = "markdown_converter.py" /\ pc = "main"
    /\ argv # <<>>
    /\ kind = "missing"
    /\ Exit("Input file " \o argv[1] \o " does not exist.", 1)
    /\ UNCHANGED <<capVars, dateVars, inVars, raised, dirs, files, output_file,
                   meta, md_body, body_html, full_html, fates, processed>>

\* output_file = Path(sys.argv[2]) or input_file.with_suffix(".html")
default_output(path) == with_suffix_html(path)

Start ==
    /\ entry = "markdown_converter.py" /\ pc = "main"
    /\ argv # <<>>
    /\ kind # "missing"
    /\ output_file' = IF Len(argv) >= 2 THEN argv[2] ELSE default_output(argv[1])
    /\ pc' = "parse"
    /\ UNCHANGED <<capVars, dateVars, inVars, stdout, exitcode, raised, dirs, files,
                   meta, md_body, body_html, full_html, fates, processed>>

\* meta, md_body = parse_markdown(markdown_path)
Parse ==
    /\ pc = "parse"
    /\ IF kind = "dir"
       THEN /\ Raise("IsADirectoryError")
            /\ UNCHANGED <<meta, md_body>>
       ELSE LET r == parse_markdown(text)
            IN  IF r.raised # ""
                THEN /\ Raise(r.raised)
                     /\ UNCHANGED <<meta, md_body>>
                ELSE /\ meta' = [isDict |-> r.isDict, meta |-> r.meta, other |-> r.other]
                     /\ md_body' = r.md_body
                     /\ pc' = "render"
                     /\ UNCHANGED <<raised, exitcode>>
    /\ UNCHANGED <<capVars, dateVars, inVars, stdout, dirs, files, output_file,
                   body_html, full_html, fates, processed>>

\* body_html = md.convert(md_body)
Render ==
    /\ pc = "render"
    /\ body_html' = md_convert(md_body)
    /\ pc' = "captions"
    /\ UNCHANGED <<capVars, dateVars, inVars, stdout, exitcode, raised, dirs, files,
                   output_file, meta, md_body, full_html, fates, processed>>

\* body_html = convert_img_captions(body_html)
Captions ==
    /\ pc = "captions"
    /\ body_html' = convert_img_captions(body_html)
    /\ pc' = "date"
    /\ UNCHANGED <<capVars, dateVars, inVars, stdout, exitcode, raised, dirs, files,
                   output_file, meta, md_body, full_html, fates, processed>>

\* body_html = inject_date_subtitle(body_html, meta.get("date", ""))
DateSubtitle ==
    /\ pc = "date"
    /\ IF ~meta.isDict
       THEN /\ Raise("AttributeError")
            /\ UNCHANGED body_html
       ELSE LET d == get(meta.meta, "date", Str(""))
            IN  /\ body_html' =
                       inject_date_subtitle(body_html, IF truthy(d) THEN format(d) ELSE "")
                /\ pc' = "build"
                /\ UNCHANGED <<raised, exitcode>>
    /\ UNCHANGED <<capVars, dateVars, inVars, stdout, dirs, files, output_file,
                   meta, md_body, full_html, fates, processed>>

\* full_html = build_html(meta, body_html)
Build ==
    /\ pc = "build"
    /\ full_html' = build_html(meta.meta, body_html)
    /\ pc' = "write"
    /\ UNCHANGED <<capVars, dateVars, inVars, stdout, exitcode, raised, dirs, files,
                   output_file, meta, md_body, body_html, fates, processed>>

\* output_path.write_text(full_html, encoding="utf-8")
Write ==
    /\ pc = "write"
    /\ files' = files \cup {output_file}
    /\ pc' = "print"
    /\ UNCHANGED <<capVars, dateVars, inVars, stdout, exitcode, raised, dirs,
                   output_file, meta, md_body, body_html, full_html, fates, processed>>

\* print(f"[ OK ] Wrote HTML to {output_path}"), and the script ends
Done ==
    /\ entry = "markdown_converter.py" /\ pc = "print"
    /\ Exit("[ OK ] Wrote HTML to " \o output_file, 0)
    /\ UNCHANGED <<capVars, dateVars, inVars, raised, dirs, files, output_file,
                   meta, md_body, body_html, full_html, fates, processed>>

----------------------------------------------------------------------------
\* run.py

\* if len(sys.argv) < 2
RunUsage ==
    /\ entry = "run.py" /\ pc = "main"
    /\ argv = <<>>
    /\ Exit("Usage: python run.py <input_markdown_file>", 1)
    /\ UNCHANGED <<capVars, dateVars, inVars, raised, dirs, files, output_file,
                   meta, md_body, body_html, full_html, fates, processed>>

\* if not os.path.isfile(input_file)
RunNotFound ==
    /\ entry = "run.py" /\ pc = "main"
    /\ argv # <<>>
    /\ kind # "file"
    /\ Exit("Input file '" \o argv[1] \o "' does not exist.", 1)
    /\ UNCHANGED <<capVars, dateVars, inVars, raised, dirs, files, output_file,
                   meta, md_body, body_html, full_html, fates, processed>>

\* os.makedirs("outputs/images", exist_ok=True); output_file = ...;
\* converter = MarkdownConverter(image_dir="outputs/images")
RunStart ==
    /\ entry = "run.py" /\ pc = "main"
    /\ argv # <<>>
    /\ kind = "file"
    /\ dirs' = dirs \cup {"outputs", "outputs/images"}
    /\ output_file' = run_output_file(argv[1])
    /\ pc' = "images"
    /\ UNCHANGED <<capVars, dateVars, inVars, stdout, exitcode, raised, files,
                   meta, md_body, body_html, full_html, fates, processed>>

\* convert_file: the next image of the document is processed
ProcessImage ==
    /\ pc = "images"
    /\ Len(processed) < Len(images)
    /\ LET im == images[Len(processed) + 1]
       IN  \E fate \in fates_of(im) :
               LET r == process_image(im, fate)
               IN  /\ fates' = Append(fates, fate)
                   /\ processed' = Append(processed, r.markup)
                   /\ files' = IF fate = "ok"
                               THEN files \cup {"outputs/images/" \o asset_name(im.src)}
                               ELSE files
                   /\ IF r.goes_on
                      THEN UNCHANGED <<pc, raised, exitcode>>
                      ELSE Raise("ImageError")
    /\ UNCHANGED <<capVars, dateVars, inVars, stdout, dirs, output_file,
                   meta, md_body, body_html, full_html>>

\* convert_file: every image was processed, the output is written
RunWrite ==
    /\ pc = "images"
    /\ Len(processed) = Len(images)
    /\ body_html' = Concat(processed)
    /\ files' = files \cup {output_file}
    /\ pc' = "print"
    /\ UNCHANGED <<capVars, dateVars, inVars, stdout, exitcode, raised, dirs,
                   output_file, meta, md_body, full_html, fates, processed>>

\* print(f"Conversion completed! Output: {output_file}"), and main returns
RunDone ==
    /\ entry = "run.py" /\ pc = "print"
    /\ Exit("Conversion completed! Output: " \o output_file, 0)
    /\ UNCHANGED <<capVars, dateVars, inVars, raised, dirs, files, output_file,
                   meta, md_body, body_html, full_html, fates, processed>>

Next ==
    \/ Usage \/ NotFound \/ Start \/ Parse \/ Render \/ Captions \/ DateSubtitle
    \/ Build \/ Write \/ Done
    \/ RunUsage \/ RunNotFound \/ RunStart \/ ProcessImage \/ RunWrite \/ RunDone

Spec == Init /\ [][Next]_vars

(***************************************************************************)
(* Claims about a run                                                      *)
(***************************************************************************)

Script == entry = "markdown_converter.py"
Converted == Script /\ pc = "exit" /\ exitcode = 0

\* the front-matter value of field k, Absent when the front-matter lacks it
Given(k) == ValueOf(k, doc.fields[k])

\* the output carries date v: in the subtitle (an empty or null date has none)
DateInOutput(v) ==
    IF truthy(v)
    THEN Contains(full_html.body_html, subtitle(format(v)))
    ELSE ~Contains(full_html.body_html, "class=\"subtitle\"")

\* field k stands in the output with value v: written at its placeholders, or,
\* for the date, carried by the subtitle
InOutput(k, v) ==
    IF k = "date" THEN DateInOutput(v) ELSE full_html[k] = format(v)

\* the same, the subtitle being written only under a body's first h1
InOutputUnderHeading(k, v) ==
    IF k = "date"
    THEN DateInOutput(IF doc.heading THEN v ELSE Str(""))
    ELSE full_html[k] = format(v)

\* C3: run.py's converter isolates the failure of an image: the image keeps
\* its markup, every image that succeeds becomes a figure, and the conversion
\* completes and writes the output, in whatever order images fail or succeed.
C3_FaultIsolation ==
    /\ entry = "run.py" /\ kind = "file" /\ argv # <<>> =>
          /\ raised = ""
          /\ \A i \in 1..Len(processed) :
                IF fates[i] = "ok"
                THEN LitAt(processed[i], 1, "<figure>")
                ELSE processed[i] = img_markup(images[i])
    /\ entry = "run.py" /\ kind = "file" /\ argv # <<>> /\ pc = "exit" =>
          /\ exitcode = 0
          /\ Len(processed) = Len(images)
          /\ body_html = Concat(processed)
          /\ run_output_file(argv[1]) \in files

\* C3 witness: a run ended in which one image failed to be fetched and a
\* later one succeeded.
C3_Witness ==
    /\ entry = "run.py" /\ pc = "exit"
    /\ \E i, j \in 1..Len(fates) :
          i < j /\ fates[i] = "fetch failed" /\ fates[j] = "ok"
    /\ output_file \in files

C6_ParseErrorRecovered ==
    Script /\ pc = "exit" /\ doc.shape \in {"badyaml", "scalar"} =>
        /\ exitcode = 0
        /\ raised = ""
        /\ meta = NoMeta
        /\ output_file \in files

\* the front-matter block delimited by lines of exactly ---: the text between
\* the first line and the next such line
line_block(txt) ==
    LET p == Find(txt, 4, "\n---\n")
    IN  [found |-> LitAt(txt, 1, "---\n") /\ p # 0,
         block |-> SubSeq(txt, 5, p)]

\* C7: parse_markdown takes a front-matter block only between a first line of
\* exactly --- and a later line of exactly ---, and parses the metadata from
\* exactly the text between them; otherwise it returns empty metadata and the
\* whole text, without raising.
C7_LineDelimited ==
    Script /\ kind = "file" =>
        LET lb == line_block(text)
            loaded == safe_load(lb.block)
        IN  /\ pc = "render" =>
                  IF lb.found
                  THEN loaded.tag \in {"map", "none"} =>
                           meta = [isDict |-> TRUE, meta |-> loaded.map, other |-> ""]
                  ELSE meta = NoMeta /\ md_body = text
            /\ raised = "YAMLError" => lb.found

\* the text holds a character that ends an attribute value or starts markup
BreaksOut(t) == Contains(t, "\"") \/ Contains(t, "<") \/ Contains(t, ">")

\* C8: every metadata value is escaped where it is written: no value of
\* title, description, keywords, canonical, url or image (build_html) or date
\* (inject_date_subtitle) can end its attribute or element or add markup.
C8_Escaped ==
    Converted =>
        /\ \A k \in KeySet \ {"date"} : ~BreaksOut(full_html[k])
        /\ LET d == get(meta.meta, "date", Str(""))
           IN  truthy(d) /\ BreaksOut(d.s) =>
                   ~Contains(full_html.body_html, subtitle(d.s))

\* C9: the resolver never fails and leaves no field missing: a field has the
\* front-matter value only when that is present and not empty (an empty or
\* null value does not replace the default), and its default otherwise; an
\* empty canonical resolves to the resolved url.
C9_Resolver ==
    Script /\ pc = "exit" /\ doc.shape = "block" =>
        /\ exitcode = 0
        /\ \A k \in KeySet \ {"canonical"} :
              InOutputUnderHeading(
                  k, IF truthy(Given(k)) THEN Given(k) ELSE DEFAULT_META[k])
        /\ IF truthy(Given("canonical"))
           THEN full_html.canonical = Given("canonical").s
           ELSE full_html.canonical = full_html.url

\* the default output path of each entry point, for the input paths used
DefaultOutput(e, path) ==
    IF e = "run.py"
    THEN (IF path = "post.md" THEN "outputs/post.html" ELSE "outputs/notes.html")
    ELSE (IF path = "post.md" THEN "post.html" ELSE "docs/notes.html")

ExpectedOutput ==
    IF Script /\ Len(argv) >= 2 THEN argv[2] ELSE DefaultOutput(entry, argv[1])

UsageLine ==
    IF Script THEN "Usage: python converter.py <input.md> [output.html]"
    ELSE "Usage: python run.py <input_markdown_file>"

\* C10: each entry point prints a usage message and exits with 1 without an
\* input path, prints an existence error and exits with 1 for an input path
\* that does not exist, writing nothing in both cases; otherwise it writes
\* the output file (at the given or the default path) and then prints one
\* line of confirmation that holds the output path.
C10_Cli ==
    /\ pc = "exit" /\ argv = <<>> =>
          stdout = <<UsageLine>> /\ exitcode = 1 /\ files = {} /\ dirs = {}
    /\ pc = "exit" /\ argv # <<>> /\ kind = "missing" =>
          /\ Len(stdout) = 1
          /\ Contains(stdout[1], argv[1]) /\ Contains(stdout[1], "does not exist")
          /\ exitcode = 1 /\ files = {} /\ dirs = {}
    /\ pc = "exit" /\ argv # <<>> /\ kind = "file" =>
          /\ exitcode = 0
          /\ ExpectedOutput \in files
          /\ Len(stdout) = 1
          /\ Contains(stdout[1], ExpectedOutput)
    /\ argv # <<>> /\ kind = "file" /\ stdout # <<>> => ExpectedOutput \in files

====
